---- MODULE Spec2Model ----
(***************************************************************************)
(* Model of the high-resolution land-surface-temperature script            *)
(* (src/unnamed/part_001): Sentinel-2 feature stack, correlation ranking   *)
(* of the candidate predictors, and the per-day prediction loop            *)
(* predictDailyLST with its no-data placeholder; and of the monthly        *)
(* time-series scripts (NDVI, SAVI, soil moisture, false colour,           *)
(* precipitation): series builder, exports, animation and map layers.      *)
(*                                                                         *)
(* A raster is reduced to one pixel.  A Sentinel-2 image carries its       *)
(* acquisition day, its CLOUDY_PIXEL_PERCENTAGE, whether it intersects the *)
(* region, the QA60 value of the pixel and one digital number shared by    *)
(* all its reflectance bands.  Dates are day numbers.  The region the      *)
(* sample is drawn from is a set of pixels with an elevation and a Landsat *)
(* LST.                                                                    *)
(***************************************************************************)
EXTENDS Integers, Sequences, FiniteSets, TLC

VARIABLES
    predictors,    \* the candidate predictor names
    finalPredictorsSize, \* the number of predictors the model is fitted on
    sample,        \* the sample: per column name, the values at the sample points
    correlation,   \* per candidate, its name and squared correlation with the label
    topCorr,       \* the names of the shortlisted candidates, best first
    modelFeatures, \* the names of the final predictors
    train,         \* the sample points of the training partition
    roi,           \* the pixels of the region the sample is drawn from
    s2,            \* the Sentinel-2 archive: a set of image records
    srtm,          \* elevation of the pixel (SRTM DEM)
    start,         \* first day of the analysis period
    end,           \* day after the last day of the analysis period
    model,         \* the trained regression model
    outcome,       \* the image produced for each day offset computed so far
    evals,         \* per day offset: how often the unit has been evaluated
    outOfOrder,    \* whether a unit was computed after a unit of a later day
    run,           \* "running" | "failed": state of the evaluation
    faults,        \* the day offsets whose fetch of source imagery failed
    dailyLST,      \* the collection returned by predictDailyLST (<<>> until built)
    filtered,      \* the flag-filtered, time-sorted collection
    pc,            \* the position in the script
    numPoints,     \* the numPoints argument of stratifiedSample
    script,        \* which script runs: "LST" or one of the monthly scripts
    startYear,     \* first year of a monthly series
    endYear,       \* last year of a monthly series
    archive,       \* the source images of a monthly script
    series,        \* the merged monthly collection built so far
    pending,       \* the asynchronous callbacks that have not run yet
    console,       \* what has been printed, in order
    layers,        \* the layers added to the map, in order
    tasks,         \* the export tasks started, in order
    overtaken,     \* how many replies came before the reply of an older month
    qa,            \* a QA_PIXEL and a QA60 value
    mask           \* the masks computed from them

trainingVars == <<predictors, finalPredictorsSize, sample, correlation, topCorr,
                  modelFeatures, train>>
inputVars == <<roi, s2, srtm, start, end, numPoints>>
monthlyVars == <<script, startYear, endYear, archive, series, pending, console,
                 layers, tasks, overtaken, qa, mask>>
engineVars == <<outcome, evals, outOfOrder, run, faults, dailyLST, filtered>>
lstVars == <<trainingVars, inputVars, engineVars, model>>

vars == <<predictors, finalPredictorsSize, sample, correlation, topCorr,
          modelFeatures, train, roi, s2, srtm, start, end, model, outcome, evals,
          outOfOrder, run, faults, dailyLST, filtered, pc, numPoints, script,
          startYear, endYear, archive, series, pending, console, layers, tasks,
          overtaken, qa, mask>>

----------------------------------------------------------------------------
(* Bounds of the model *)

MaxDays == 2
MaxImages == 2
MaxCandidates == 3
MaxPixels == 2

(* Values the inputs are drawn from *)
Scenes == {[cloudPct |-> 0, inBounds |-> TRUE], [cloudPct |-> 50, inBounds |-> TRUE],
           [cloudPct |-> 0, inBounds |-> FALSE]}
Pixels == {[qa60 |-> 0, dn |-> 1000], [qa60 |-> 0, dn |-> 3000],
           [qa60 |-> 1024, dn |-> 3000]}
ElevValues == {120}
Elevations == {-1, 0, 9, 10, 49, 50, 99, 100, 499, 500, 999, 1000}

(* Program constants *)
MsPerDay == 86400000
CloudyPixelLimit == 10
ReflectanceScale == 10000
ScriptPredictorsSize == 3
TrainRatioTenths == 7
NumberOfTrees == 50
ScriptNumPoints == 1000

(* the consumers of the deferred collection dailyLST, each of which has it
   evaluated: the chart, the thumbnail and the video URL *)
Consumers == 3

----------------------------------------------------------------------------
(* Sentinel-2 bands kept by select("B.*") *)
S2Bands == {"B1", "B2", "B3", "B4", "B5", "B6", "B7", "B8", "B8A", "B9", "B11", "B12"}

ImageRecs ==
    {[day |-> d, cloudPct |-> sc.cloudPct, inBounds |-> sc.inBounds,
      qa60 |-> px.qa60, dn |-> px.dn] :
        d \in 0..(MaxDays - 1), sc \in Scenes, px \in Pixels}

(* A pixel value is a fraction num/den; den = 0 marks a masked pixel. *)
Masked == [num |-> 0, den |-> 0]
IsMasked(px) == px.den = 0
Whole(n) == [num |-> n, den |-> 1]

(* an image without bands: the median of an empty collection *)
NoBands == [b \in {} |-> Masked]

(* value of bit b of n *)
Bit(n, b) == (n \div (2 ^ b)) % 2

(* Number.bitwiseAnd on non-negative integers, bit by bit *)
RECURSIVE bitwiseAnd(_, _)
bitwiseAnd(a, b) ==
    IF a = 0 \/ b = 0 THEN 0
    ELSE ((a % 2) * (b % 2)) + 2 * bitwiseAnd(a \div 2, b \div 2)

(* cloudMaskS2: the pixel is kept when QA60 has neither the cloud bit
   (2^10) nor the cirrus bit (2^11); the kept digital number is divided by
   10000.  The result is the pixel of the "B.*" bands. *)
cloudMaskS2(image) ==
    IF bitwiseAnd(image.qa60, 2 ^ 10) = 0 /\ bitwiseAnd(image.qa60, 2 ^ 11) = 0
    THEN [num |-> image.dn, den |-> ReflectanceScale]
    ELSE Masked

(* the images of a collection whose pixel survives cloudMaskS2 *)
Unmasked(coll) == {im \in coll : ~IsMasked(cloudMaskS2(im))}

(* the smallest digital number of a non-empty set of images *)
MinDN(coll) == CHOOSE v \in {im.dn : im \in coll} : \A im \in coll : v <= im.dn

(* the digital numbers of a set of images in ascending order, one per image *)
RECURSIVE SortedDNs(_)
SortedDNs(coll) ==
    IF coll = {} THEN <<>>
    ELSE LET im == CHOOSE x \in coll : x.dn = MinDN(coll)
         IN  <<im.dn>> \o SortedDNs(coll \ {im})

(* ImageCollection.median() at the pixel: the median of the unmasked values,
   the mean of the two middle values for an even count; masked when no
   image has an unmasked value.  The fraction keeps the halving exact. *)
median(coll) ==
    LET dns == SortedDNs(Unmasked(coll))
        n   == Len(dns)
    IN  IF n = 0 THEN Masked
        ELSE [num |-> dns[(n + 1) \div 2] + dns[(n + 2) \div 2],
              den |-> 2 * ReflectanceScale]

(* The composite image of a non-empty collection: every "B.*" band holds the
   median pixel.  The median of an empty collection has no bands. *)
Composite(coll) ==
    IF coll = {} THEN NoBands
    ELSE [b \in S2Bands |-> median(coll)]

(* Image.normalizedDifference([a, b]): (a - b) / (a + b), masked where an
   input is masked or the sum is zero.  Both inputs are composites of the
   same collection, so they share a denominator. *)
normalizedDifference(img, a, b) ==
    IF IsMasked(img[a]) \/ IsMasked(img[b]) THEN Masked
    ELSE IF img[a].num + img[b].num = 0 THEN Masked
    ELSE [num |-> img[a].num - img[b].num, den |-> img[a].num + img[b].num]

(* DEM-derived terrain features of the pixel.  The neighbourhood of the pixel
   is level: its focal mean is its own elevation and its slope is zero. *)
focalMean(elev) == elev
tpi == Whole(srtm - focalMean(srtm))
slope == Whole(0)

(* Elevation classes for stratified sampling: the chain of .where() calls,
   a later call overriding an earlier one. *)
(* the chain with the lower edges of the bins left out of them *)
stratOfOpenBins(elev) ==
    LET c0 == 0
        c1 == IF elev < 0 THEN 1 ELSE c0
        c2 == IF elev > 0 /\ elev < 10 THEN 2 ELSE c1
        c3 == IF elev > 10 /\ elev < 50 THEN 3 ELSE c2
        c4 == IF elev > 50 /\ elev < 100 THEN 4 ELSE c3
        c5 == IF elev > 100 /\ elev < 500 THEN 5 ELSE c4
        c6 == IF elev > 500 /\ elev < 1000 THEN 6 ELSE c5
        c7 == IF elev > 1000 THEN 7 ELSE c6
    IN  c7

stratOf(elev) ==
    LET c0 == 0
        c1 == IF elev < 0 THEN 1 ELSE c0
        c2 == IF elev >= 0 /\ elev < 10 THEN 2 ELSE c1
        c3 == IF elev >= 10 /\ elev < 50 THEN 3 ELSE c2
        c4 == IF elev >= 50 /\ elev < 100 THEN 4 ELSE c3
        c5 == IF elev >= 100 /\ elev < 500 THEN 5 ELSE c4
        c6 == IF elev >= 500 /\ elev < 1000 THEN 6 ELSE c5
        c7 == IF elev >= 1000 THEN 7 ELSE c6
    IN  c7

(* the class of the pixel *)
strat == stratOf(srtm)

----------------------------------------------------------------------------
(* FEATURE ENGINEERING for the training period *)

(* the bands the index formulas read *)
IndexInputs == {"B3", "B8", "B11", "B12"}

(* ee.Filter.and(ee.Filter.bounds(roi), ee.Filter.date(start, end)) *)
filter(im) == im.inBounds /\ start <= im.day /\ im.day < end

(* s2.filter(filter).map(cloudMaskS2).median().clip(roi) over a collection *)
s2ImageOf(coll) == Composite({im \in coll : filter(im)})

(* The stacked training image over a collection.  The index formulas fail on
   a composite without bands, and the stack is then no image at all; the
   model keeps it as the image without bands. *)
featuresOf(coll) ==
    LET s2Image == s2ImageOf(coll)
    IN  IF ~(IndexInputs \subseteq DOMAIN s2Image) THEN NoBands
        ELSE s2Image @@ [NDMI |-> normalizedDifference(s2Image, "B8", "B11"),
                         NBR |-> normalizedDifference(s2Image, "B8", "B12"),
                         MNDWI2 |-> normalizedDifference(s2Image, "B3", "B12"),
                         elevation |-> Whole(srtm), TPI |-> tpi, slope |-> slope,
                         elevation_class |-> Whole(strat)]

features == featuresOf(s2)

----------------------------------------------------------------------------
(* TRAINING SAMPLE, CORRELATION ANALYSIS AND MODEL *)

(* the candidate predictors and the label of the script *)
ScriptPredictors ==
    <<"B4", "B8", "B11", "NDMI", "NBR", "MNDWI2", "elevation", "TPI", "slope">>
label == "LST"

(* A score is a fraction num/den with den > 0, or not a number (den = 0). *)
NaN == [num |-> 0, den |-> 0]
IsNumber(score) == score.den # 0
Greater(a, b) == a.num * b.den > b.num * a.den

(* the sample points of a column *)
Points(col) == 1..Len(col)

RECURSIVE Sum(_, _)
Sum(f, n) == IF n = 0 THEN 0 ELSE f[n] + Sum(f, n - 1)

(* the list handed to reduceColumns: each predictor followed by the label *)
RECURSIVE predictorsLstOf(_)
predictorsLstOf(names) ==
    IF names = <<>> THEN <<>>
    ELSE <<Head(names), label>> \o predictorsLstOf(Tail(names))

predictorsLst == predictorsLstOf(predictors)

(* ee.Reducer.pearsonsCorrelation() over two columns, already squared:
   r = cov / sqrt(varx * vary), hence r^2 = cov^2 / (varx * vary); with a
   column of zero variance the quotient is 0/0, not a number. *)
pearsonsCorrelationSquared(x, y) ==
    LET n   == Len(x)
        sx  == Sum(x, n)
        sy  == Sum(y, n)
        sxy == Sum([i \in 1..n |-> x[i] * y[i]], n)
        sxx == Sum([i \in 1..n |-> x[i] * x[i]], n)
        syy == Sum([i \in 1..n |-> y[i] * y[i]], n)
        cov == n * sxy - sx * sy
        vx  == n * sxx - sx * sx
        vy  == n * syy - sy * sy
    IN  IF vx * vy = 0 THEN NaN ELSE [num |-> cov * cov, den |-> vx * vy]

(* sample.reduceColumns(pearsonsCorrelation().repeat(n), predictorsLst): the
   i-th reducer takes the i-th pair of columns of the list; then the feature
   collection of names and ee.Number(r).pow(2) *)
correlationOf(smp) ==
    [i \in 1..Len(predictors) |->
        [feature |-> predictors[i],
         r2 |-> pearsonsCorrelationSquared(smp[predictorsLst[2 * i - 1]],
                                           smp[predictorsLst[2 * i]])]]

(* the orders in which a descending sort by 'r2' may leave the collection:
   numbers in descending order, equal numbers in either order; how a score
   that is not a number compares is not fixed by the script, so it may end
   anywhere. *)
DescendingOrders(coll) ==
    {p \in [1..Len(coll) -> 1..Len(coll)] :
        /\ \A i, j \in 1..Len(coll) : i # j => p[i] # p[j]
        /\ \A i, j \in 1..Len(coll) :
               i < j /\ IsNumber(coll[p[i]].r2) /\ IsNumber(coll[p[j]].r2)
                   => ~Greater(coll[p[j]].r2, coll[p[i]].r2)}

Min(a, b) == IF a <= b THEN a ELSE b

(* correlation.limit(max, 'r2', false).aggregate_array('feature') for one of
   the orders of the sort *)
limitFeatures(coll, max, p) ==
    [i \in 1..Min(max, Len(coll)) |-> coll[p[i]].feature]

(* ee.List(list).slice(0, n) *)
slice0(list, n) == SubSeq(list, 1, Min(n, Len(list)))

(* ee.Classifier.smileRandomForest(50).setOutputMode('REGRESSION')
     .train(train, label, modelFeatures): the model is bound to the ordered
   list of feature names it was fitted on *)
smileRandomForest(rows, names) ==
    [trees |-> NumberOfTrees, inputProperties |-> names, target |-> label,
     fittedOn |-> rows]

(* Classifier.train() fails on a collection without rows: the model exists
   only when it was fitted on at least one row *)
IsTrained(m) == m.fittedOn # {}

(* the failure of classify() without the test of the model *)
classifyFailsOnBands(image, m) ==
    \E i \in 1..Len(m.inputProperties) : m.inputProperties[i] \notin DOMAIN image

(* Image.classify() fails when the model failed to train or when the image
   lacks a band the model was fitted on *)
classifyFails(image, m) ==
    \/ ~IsTrained(m)
    \/ \E i \in 1..Len(m.inputProperties) : m.inputProperties[i] \notin DOMAIN image

(* Image.classify(model, 'LST') at the pixel: a value determined by the model
   and the pixel's values of the model's input bands, masked where an input
   band is masked. *)
classify(image, m) ==
    LET fs == m.inputProperties
    IN  IF \E i \in 1..Len(fs) : IsMasked(image[fs[i]]) THEN Masked
        ELSE [regression |-> fs, inputs |-> [i \in 1..Len(fs) |-> image[fs[i]]]]

----------------------------------------------------------------------------
(* DAILY LST PREDICTION *)

(* the number of whole days of [start, end) *)
difference(endDate, startDate) == endDate - startDate

(* the offsets with the end of the sequence not reduced by one *)
daysInclusive == 0..difference(end, start)

(* ee.List.sequence(0, difference - 1) *)
days == 0..(difference(end, start) - 1)

(* ee.Date.millis() of a day number *)
millis(day) == day * MsPerDay

(* the day's images with a window that opens one day early *)
s2dayOfEarly(coll, day) ==
    {im \in coll : im.inBounds /\ day - 1 <= im.day /\ im.day < day + 1
                   /\ im.cloudPct < CloudyPixelLimit}

(* the day's images when the images of the units computed so far stay in
   the collection *)
s2dayOfAccumulated(coll, day) ==
    {im \in coll : /\ im.inBounds
                   /\ \/ day <= im.day /\ im.day < day + 1
                      \/ im.day - start \in DOMAIN outcome
                   /\ im.cloudPct < CloudyPixelLimit}

(* s2.filterBounds(aoi).filterDate(day, day + 1)
     .filter(ee.Filter.lt('CLOUDY_PIXEL_PERCENTAGE', 10)) over a collection *)
s2dayOf(coll, day) ==
    {im \in coll : im.inBounds /\ day <= im.day /\ im.day < day + 1
                   /\ im.cloudPct < CloudyPixelLimit}

s2day(day) == s2dayOf(s2, day)

(* the test of the size with gt(1) in place of gt(0) *)
hasDataOfSeveral(coll, day) ==
    Cardinality({im \in coll : im.inBounds /\ day <= im.day /\ im.day < day + 1
                               /\ im.cloudPct < CloudyPixelLimit}) > 1

(* s2day.size().gt(0) over a collection *)
hasDataOf(coll, day) == Cardinality(s2dayOf(coll, day)) > 0

(* the stack of one day when the elevation band is left out of addBands *)
allOfWithoutElevation(coll, day) ==
    LET img == Composite(s2dayOf(coll, day))
    IN  IF ~(IndexInputs \subseteq DOMAIN img) THEN NoBands
        ELSE img @@ [NDMI |-> normalizedDifference(img, "B8", "B11"),
                     NBR |-> normalizedDifference(img, "B8", "B12"),
                     MNDWI2 |-> normalizedDifference(img, "B3", "B12"),
                     TPI |-> tpi, slope |-> slope]

(* The feature stack of one day over a collection.  It is built only for a
   day with images; as for the training stack, a composite without bands
   gives no stack. *)
allOf(coll, day) ==
    LET img == Composite(s2dayOf(coll, day))
    IN  IF ~(IndexInputs \subseteq DOMAIN img) THEN NoBands
        ELSE img @@ [NDMI |-> normalizedDifference(img, "B8", "B11"),
                     NBR |-> normalizedDifference(img, "B8", "B12"),
                     MNDWI2 |-> normalizedDifference(img, "B3", "B12"),
                     elevation |-> Whole(srtm), TPI |-> tpi, slope |-> slope]

all(day) == allOf(s2, day)

(* all.classify(model, 'LST').set('system:time_start', day.millis()).rename('LST') *)
predictedOf(coll, day) ==
    [bands |-> [LST |-> classify(allOf(coll, day), model)],
     props |-> [time_start |-> millis(day)]]

(* ee.Image().rename('LST').set('system:time_start', day.millis()).set('noData', 1):
   ee.Image() is one fully masked band *)
dummy(day) ==
    [bands |-> [LST |-> Masked],
     props |-> [time_start |-> millis(day), noData |-> 1]]

(* the function mapped over the day offsets, over a collection:
   ee.Algorithms.If(hasData, <prediction>, <dummy>) *)
dayImageOf(coll, offset) ==
    LET day == start + offset
    IN  IF hasDataOf(coll, day) THEN predictedOf(coll, day) ELSE dummy(day)

hasData(day) == hasDataOf(s2, day)
predicted(day) == predictedOf(s2, day)
dayImage(offset) == dayImageOf(s2, offset)

(* the state of a time unit, read off its entry *)
IsNoData(e) == "noData" \in DOMAIN e.props /\ e.props.noData = 1
UnitState(o) ==
    IF o \notin DOMAIN outcome THEN "Pending"
    ELSE IF IsNoData(outcome[o]) THEN "NoData" ELSE "Valid"

(* insert an image into a sequence sorted by 'system:time_start', after the
   images with an equal or smaller time *)
RECURSIVE insertByTime(_, _)
insertByTime(sorted, e) ==
    IF sorted = <<>> THEN <<e>>
    ELSE IF Head(sorted).props.time_start <= e.props.time_start
         THEN <<Head(sorted)>> \o insertByTime(Tail(sorted), e)
         ELSE <<e>> \o sorted

(* ImageCollection.sort('system:time_start') *)
RECURSIVE sort(_)
sort(coll) ==
    IF coll = <<>> THEN <<>>
    ELSE insertByTime(sort(SubSeq(coll, 1, Len(coll) - 1)), coll[Len(coll)])

(* the filter when an image must carry the property to pass *)
neqNoDataIfSet(e) == "noData" \in DOMAIN e.props /\ e.props.noData # 1

(* ee.Filter.neq('noData', 1): an image without the property passes *)
neqNoData(e) == ~IsNoData(e)

----------------------------------------------------------------------------
(* The evaluation as a state machine *)

(* the archives of at most n images *)
RECURSIVE Archives(_)
Archives(n) ==
    IF n = 0 THEN {{}}
    ELSE LET smaller == Archives(n - 1)
         IN  smaller \cup {S \cup {im} : S \in smaller, im \in ImageRecs}

(* no monthly script runs *)
MonthlyIdle ==
    /\ script = "LST"
    /\ startYear = 0
    /\ endYear = 0
    /\ archive = {}
    /\ series = <<>>
    /\ pending = {}
    /\ console = <<>>
    /\ layers = <<>>
    /\ tasks = <<>>
    /\ overtaken = 0
    /\ qa = <<>>
    /\ mask = <<>>

(* a model the training may have produced *)
FittedModels == {smileRandomForest({1}, <<"B4", "NDMI", "elevation">>)}

(* the state after the training part of the script *)
Init ==
    /\ predictors = ScriptPredictors
    /\ finalPredictorsSize = ScriptPredictorsSize
    /\ sample = <<>>
    /\ correlation = <<>>
    /\ topCorr = <<>>
    /\ modelFeatures = <<>>
    /\ train = {}
    /\ roi = {}
    /\ s2 \in Archives(MaxImages)
    /\ srtm \in ElevValues
    /\ start \in 0..(MaxDays - 1)
    /\ end \in (start + 1)..MaxDays
    /\ model \in FittedModels
    /\ outcome = <<>>
    /\ evals = [o \in 0..(MaxDays - 1) |-> 0]
    /\ outOfOrder = FALSE
    /\ run = "running"
    /\ faults = {}
    /\ dailyLST = <<>>
    /\ filtered = <<>>
    /\ pc = "predict"
    /\ numPoints = ScriptNumPoints
    /\ MonthlyIdle

(* the evaluation of the unit at an offset fails: it has images and their
   stack cannot be classified *)
predictionFails(offset) ==
    hasData(start + offset) /\ classifyFails(all(start + offset), model)

(* the application of the mapped function when the model is dropped once a
   unit has been classified *)
PredictDayConsuming(o) ==
    /\ pc = "predict"
    /\ run = "running"
    /\ o \in days
    /\ o \notin DOMAIN outcome
    /\ ~predictionFails(o)
    /\ outcome' = (o :> dayImage(o)) @@ outcome
    /\ evals' = [evals EXCEPT ![o] = 1]
    /\ outOfOrder' = (outOfOrder \/ \E later \in DOMAIN outcome : later > o)
    /\ model' = IF hasData(start + o) THEN smileRandomForest({}, <<>>) ELSE model
    /\ UNCHANGED <<trainingVars, inputVars, monthlyVars, run, faults, dailyLST, filtered, pc>>

(* one application of the mapped function: the unit at offset o is computed;
   an error of the classification fails the evaluation of the mapped list *)
PredictDay(o) ==
    /\ pc = "predict"
    /\ run = "running"
    /\ o \in days
    /\ o \notin DOMAIN outcome
    /\ IF predictionFails(o)
       THEN /\ run' = "failed"
            /\ UNCHANGED <<outcome, evals, outOfOrder>>
       ELSE /\ outcome' = (o :> dayImage(o)) @@ outcome
            /\ evals' = [evals EXCEPT ![o] = 1]
            /\ outOfOrder' = (outOfOrder \/ \E later \in DOMAIN outcome : later > o)
            /\ UNCHANGED run
    /\ UNCHANGED <<trainingVars, inputVars, monthlyVars, model, faults, dailyLST, filtered, pc>>

(* another of the consumers of the deferred collection has the unit
   evaluated again *)
Reevaluate(o) ==
    /\ pc = "predict"
    /\ run = "running"
    /\ o \in DOMAIN outcome
    /\ evals[o] < Consumers
    /\ outcome' = [outcome EXCEPT ![o] = dayImage(o)]
    /\ evals' = [evals EXCEPT ![o] = evals[o] + 1]
    /\ UNCHANGED <<trainingVars, inputVars, monthlyVars, model, outOfOrder, run, faults,
                   dailyLST, filtered, pc>>

(* ee.ImageCollection.fromImages(days.map(...)) and the flag-filtered,
   time-sorted collection built from it *)
Assemble ==
    /\ pc = "predict"
    /\ run = "running"
    /\ DOMAIN outcome = days
    /\ dailyLST' = [i \in 1..Cardinality(days) |-> outcome[i - 1]]
    /\ filtered' = sort(SelectSeq(dailyLST', neqNoData))
    /\ pc' = "assembled"
    /\ UNCHANGED <<trainingVars, inputVars, monthlyVars, model, outcome, evals, outOfOrder, run, faults>>

(* ImageCollection.select(band): every image keeps the band and its
   properties *)
select(coll, band) ==
    [i \in 1..Len(coll) |->
        [bands |-> [b \in {band} |-> coll[i].bands[b]], props |-> coll[i].props]]

(* the collections handed to the consumers: the imageCollection of
   ui.Chart.image.series, and the collection of ui.Thumbnail and of
   getVideoThumbURL *)
chart == select(dailyLST, "LST")
thumbnail == select(filtered, "LST")
videoThumbURL == select(filtered, "LST")

Next ==
    \/ \E o \in 0..(MaxDays - 1) : PredictDay(o)
    \/ \E o \in 0..(MaxDays - 1) : Reevaluate(o)
    \/ Assemble

Spec == Init /\ [][Next]_vars

(* The branch taken for a unit depends on the number of its images, not on
   their pixels: the fair runs are explored over archives of in-bounds images
   with one clear pixel value, of either cloud cover. *)
InitFair ==
    /\ Init
    /\ \A im \in s2 : im.inBounds /\ im.qa60 = 0 /\ im.dn = 1000

(* Every unit of the mapped list is evaluated when the collection is
   requested: no unit stays unevaluated for ever, and the collection is
   built once all are. *)
FairSpec ==
    /\ InitFair
    /\ [][Next]_vars
    /\ \A o \in 0..(MaxDays - 1) : WF_vars(PredictDay(o))
    /\ WF_vars(Assemble)

(* The fetch of the source imagery of a unit fails or times out.  Nothing in
   predictDailyLST handles the error: ee.Algorithms.If only tests the size of
   the fetched collection, so the error fails the evaluation of the whole
   mapped list. *)
FetchFails(o) ==
    /\ pc = "predict"
    /\ run = "running"
    /\ o \in days
    /\ o \notin DOMAIN outcome
    /\ faults' = faults \cup {o}
    /\ run' = "failed"
    /\ UNCHANGED <<trainingVars, inputVars, monthlyVars, model, outcome, evals, outOfOrder,
                   dailyLST, filtered, pc>>

NextFaulty ==
    \/ Next
    \/ \E o \in 0..(MaxDays - 1) : FetchFails(o)

SpecFaulty == Init /\ [][NextFaulty]_vars

----------------------------------------------------------------------------
(* The training part of the script as a state machine *)

(* the values of a sample column at the sample points *)
Columns == {<<2, 2, 2, 2>>, <<1, 2, 3, 4>>, <<1, 3, 2, 4>>, <<2, 1, 4, 3>>,
            <<2, 4, 1, 3>>}

(* where the windows of the script's candidate list start: the reflectance
   bands, the indices, the terrain features *)
WindowStarts == {1, 4, 7}

(* the draws of sample.randomColumn(), in tenths *)
RandomTenths == {2, 9}

(* the state after features.addBands(lstLandsat).stratifiedSample(...): a
   sample with a column for every candidate and for the label; the candidates
   are a window of the script's list, and the archive holds one clear image
   of the only day of the period *)
InitTraining ==
    /\ predictors \in {SubSeq(ScriptPredictors, first,
                                Min(first + n - 1, Len(ScriptPredictors))) :
                           n \in 1..MaxCandidates, first \in WindowStarts}
    /\ finalPredictorsSize \in 1..ScriptPredictorsSize
    /\ sample \in [{predictors[i] : i \in 1..Len(predictors)} \cup {label} -> Columns]
    /\ correlation = <<>>
    /\ topCorr = <<>>
    /\ modelFeatures = <<>>
    /\ train = {}
    /\ roi = {}
    /\ s2 = {im \in ImageRecs : /\ im.day = 0 /\ im.inBounds /\ im.cloudPct = 0
                                /\ im.qa60 = 0 /\ im.dn = 1000}
    /\ srtm \in ElevValues
    /\ start = 0
    /\ end = 1
    /\ model = smileRandomForest({}, <<>>)
    /\ outcome = <<>>
    /\ evals = [o \in 0..(MaxDays - 1) |-> 0]
    /\ outOfOrder = FALSE
    /\ run = "running"
    /\ faults = {}
    /\ dailyLST = <<>>
    /\ filtered = <<>>
    /\ pc = "sampled"
    /\ numPoints = ScriptNumPoints
    /\ MonthlyIdle

(* the squared correlation of every candidate with the label *)
Correlate ==
    /\ pc = "sampled"
    /\ correlation' = correlationOf(sample)
    /\ pc' = "correlated"
    /\ UNCHANGED <<predictors, finalPredictorsSize, sample, topCorr, modelFeatures,
                   train, inputVars, monthlyVars, model, engineVars>>

(* topCorr: the first 2 * finalPredictorsSize names by descending r2 *)
Shortlist ==
    /\ pc = "correlated"
    /\ \E p \in DescendingOrders(correlation) :
           topCorr' = limitFeatures(correlation, finalPredictorsSize * 2, p)
    /\ pc' = "shortlisted"
    /\ UNCHANGED <<predictors, finalPredictorsSize, sample, correlation, modelFeatures,
                   train, inputVars, monthlyVars, model, engineVars>>

(* modelFeatures: the first finalPredictorsSize names of the shortlist *)
SelectTop ==
    /\ pc = "shortlisted"
    /\ modelFeatures' = slice0(topCorr, finalPredictorsSize)
    /\ pc' = "selected"
    /\ UNCHANGED <<predictors, finalPredictorsSize, sample, correlation, topCorr,
                   train, inputVars, monthlyVars, model, engineVars>>

(* the subsets of the sample that the script builds from the 'random' column:
   the column is filtered once, for train *)
SplitSubsets == {train}

(* sample.randomColumn(), the training partition of the points whose draw is
   at most train_ratio, and the model fitted on it *)
Fit ==
    /\ pc = "selected"
    /\ \E random \in [Points(sample[label]) -> RandomTenths] :
           train' = {i \in Points(sample[label]) : random[i] <= TrainRatioTenths}
    /\ model' = smileRandomForest(train', modelFeatures)
    /\ pc' = "trained"
    /\ UNCHANGED <<predictors, finalPredictorsSize, sample, correlation, topCorr,
                   modelFeatures, inputVars, monthlyVars, engineVars>>

NextTraining ==
    \/ Correlate
    \/ Shortlist
    \/ SelectTop
    \/ Fit

SpecTraining == InitTraining /\ [][NextTraining]_vars

----------------------------------------------------------------------------
(* The whole script as a state machine: sampling of the region, training, and
   the per-day prediction with the model that was fitted.  Of the columns of
   the sample, the terrain ones and the label are kept: the candidates are
   the elevation alone. *)

(* the pixels a region is made of: elevation (SRTM) and Landsat LST *)
LandPixels == {[elevation |-> e, LST |-> 40 - (e \div 100)] : e \in Elevations}

(* the pixels of a set by ascending elevation *)
RECURSIVE ascending(_)
ascending(pxs) ==
    IF pxs = {} THEN <<>>
    ELSE LET px == CHOOSE x \in pxs : \A y \in pxs : x.elevation <= y.elevation
         IN  <<px>> \o ascending(pxs \ {px})

(* the rows stratifiedSample() draws from one class: all its pixels, or
   numPoints of them, the same ones for the same seed *)
classRows(region, class) ==
    LET pxs == ascending({px \in region : stratOf(px.elevation) = class})
    IN  SubSeq(pxs, 1, Min(numPoints, Len(pxs)))

(* the rows of the classes from a class on *)
RECURSIVE rowsFrom(_, _)
rowsFrom(region, class) ==
    IF class > 7 THEN <<>>
    ELSE classRows(region, class) \o rowsFrom(region, class + 1)

(* features.addBands(lstLandsat).stratifiedSample({numPoints: 1000,
   classBand: 'elevation_class', seed: 1, ...}): per column, the values of the
   sampled pixels *)
stratifiedSample(region) ==
    LET rows == rowsFrom(region, 0)
    IN  [elevation |-> [i \in 1..Len(rows) |-> rows[i].elevation],
         elevation_class |-> [i \in 1..Len(rows) |-> stratOf(rows[i].elevation)],
         LST |-> [i \in 1..Len(rows) |-> rows[i].LST]]

(* the state at the start of the script; the archive holds no image or one
   image that the day's filters keep *)
InitPipeline ==
    /\ predictors = <<"elevation">>
    /\ finalPredictorsSize = ScriptPredictorsSize
    /\ sample = <<>>
    /\ correlation = <<>>
    /\ topCorr = <<>>
    /\ modelFeatures = <<>>
    /\ train = {}
    /\ roi \in {region \in SUBSET LandPixels : Cardinality(region) <= MaxPixels}
    /\ s2 \in {{}} \cup {{im} : im \in {x \in ImageRecs :
                                 /\ x.inBounds /\ x.cloudPct < CloudyPixelLimit
                                 /\ x.qa60 = 0 /\ x.dn = 1000}}
    /\ srtm \in ElevValues
    /\ start = 0
    /\ end \in 1..MaxDays
    /\ model = smileRandomForest({}, <<>>)
    /\ outcome = <<>>
    /\ evals = [o \in 0..(MaxDays - 1) |-> 0]
    /\ outOfOrder = FALSE
    /\ run = "running"
    /\ faults = {}
    /\ dailyLST = <<>>
    /\ filtered = <<>>
    /\ pc = "start"
    /\ numPoints \in {1, ScriptNumPoints}
    /\ MonthlyIdle

(* var sample = features.addBands(lstLandsat).stratifiedSample(...) *)
Sample ==
    /\ pc = "start"
    /\ sample' = stratifiedSample(roi)
    /\ pc' = "sampled"
    /\ UNCHANGED <<predictors, finalPredictorsSize, correlation, topCorr, modelFeatures,
                   train, inputVars, monthlyVars, model, engineVars>>

(* var dailyLST = predictDailyLST(start, end, roi): the mapped function is
   applied from here on *)
predictDailyLST ==
    /\ pc = "trained"
    /\ pc' = "predict"
    /\ UNCHANGED <<trainingVars, inputVars, monthlyVars, model, engineVars>>

(* every unit is evaluated once in these runs *)
NextPipeline ==
    \/ Sample
    \/ NextTraining
    \/ predictDailyLST
    \/ \E o \in 0..(MaxDays - 1) : PredictDay(o)
    \/ Assemble

SpecPipeline == InitPipeline /\ [][NextPipeline]_vars

----------------------------------------------------------------------------
(* Properties of the per-day prediction loop *)

(* the images of the archive that a day window of the range can match *)
Matchable == {im \in s2 : im.inBounds /\ im.cloudPct < CloudyPixelLimit
                          /\ start <= im.day /\ im.day < end}

(* the images of the archive acquired on the day of unit o *)
OwnImages(o) == {im \in s2 : im.day = start + o}

(* whether the entry carries a source-image count of n *)
CarriesCount(e, n) == "count" \in DOMAIN e.props /\ e.props.count = n

(* C1: for a range [start, end) of N whole days the collection returned by
   predictDailyLST has exactly N entries, the i-th entry stamped with day
   start + i - 1, so that the timestamps strictly increase without duplicate
   or gap; the day windows are pairwise disjoint and cover the range (every
   matchable image falls in exactly one of them); and this whatever days
   have or lack images. *)
C1_FullLengthSeries ==
    pc = "assembled" =>
        /\ Len(dailyLST) = end - start
        /\ \A i \in 1..Len(dailyLST) :
               dailyLST[i].props.time_start = millis(start + i - 1)
        /\ \A i, j \in 1..Len(dailyLST) :
               i < j => dailyLST[i].props.time_start < dailyLST[j].props.time_start
        /\ \A im \in Matchable :
               Cardinality({o \in days : im \in s2day(start + o)}) = 1
        /\ \A o \in days : s2day(start + o) \subseteq Matchable

(* a full-length series that mixes days with and without images *)
C1_Witness ==
    /\ pc = "assembled"
    /\ Len(dailyLST) = MaxDays
    /\ \E i, j \in 1..Len(dailyLST) :
           IsNoData(dailyLST[i]) /\ ~IsNoData(dailyLST[j])

(* C2: a unit with zero matching source images yields a NoData entry that
   keeps the unit's timestamp, carries a source-image count of 0 and has no
   field value. *)
C2_NoDataEntry ==
    \A o \in DOMAIN outcome :
        s2day(start + o) = {} =>
            /\ IsNoData(outcome[o])
            /\ outcome[o].props.time_start = millis(start + o)
            /\ CarriesCount(outcome[o], 0)
            /\ IsMasked(outcome[o].bands.LST)

(* what holds of the entry of a unit without images: the flag, the timestamp
   and the fully masked band, and no count property *)
NoDataEntryAsCoded ==
    \A o \in DOMAIN outcome :
        s2day(start + o) = {} =>
            /\ IsNoData(outcome[o])
            /\ outcome[o].props.time_start = millis(start + o)
            /\ DOMAIN outcome[o].props = {"time_start", "noData"}
            /\ DOMAIN outcome[o].bands = {"LST"}
            /\ IsMasked(outcome[o].bands.LST)

(* C3: a unit with a nonzero number of matching source images yields a Valid
   entry stamped with the unit's timestamp, carrying the number of matched
   images as its source-image count, whose field has the single band 'LST'. *)
C3_ValidEntry ==
    \A o \in DOMAIN outcome :
        s2day(start + o) # {} =>
            /\ ~IsNoData(outcome[o])
            /\ outcome[o].props.time_start = millis(start + o)
            /\ CarriesCount(outcome[o], Cardinality(s2day(start + o)))
            /\ DOMAIN outcome[o].bands = {"LST"}

(* what holds of the entry of a unit with images: no flag, the timestamp as
   the only property, and the single band 'LST' *)
ValidEntryAsCoded ==
    \A o \in DOMAIN outcome :
        s2day(start + o) # {} =>
            /\ ~IsNoData(outcome[o])
            /\ DOMAIN outcome[o].props = {"time_start"}
            /\ outcome[o].props.time_start = millis(start + o)
            /\ DOMAIN outcome[o].bands = {"LST"}

(* C4: every requested unit starts Pending; a step takes a Pending unit only
   to NoData when its image count is zero and only to Valid otherwise; no
   step changes the outcome of a unit that is Valid or NoData; and every
   requested unit eventually is Valid or NoData. *)
C4_UnitStateMachine ==
    /\ \A o \in days : UnitState(o) = "Pending"
    /\ [][\A o \in days :
            /\ UnitState(o) # "Pending" => outcome'[o] = outcome[o]
            /\ UnitState(o) = "Pending" /\ o \in DOMAIN outcome' =>
                   (IsNoData(outcome'[o]) <=> Cardinality(s2day(start + o)) = 0)
         ]_vars
    /\ <>(\A o \in days : UnitState(o) \in {"Valid", "NoData"})

(* a run with a Valid unit that was evaluated again and a NoData unit *)
C4_Witness ==
    /\ pc = "assembled"
    /\ \E o \in days : UnitState(o) = "Valid" /\ evals[o] > 1
    /\ \E o \in days : UnitState(o) = "NoData"

(* C5: a failed or timed-out fetch for one unit makes that unit NoData and
   does not abort the evaluation. *)
C5_FetchFailureDegrades ==
    \A o \in faults : run = "running" /\ UnitState(o) = "NoData"

(* C6: the outcome of a unit is the outcome computed from that unit's own
   images alone, whatever units were computed before it and however often it
   was evaluated; and the assembled collections are those of evaluating the
   units once each in day order. *)
C6_OrderIndependent ==
    /\ \A o \in DOMAIN outcome : outcome[o] = dayImageOf(OwnImages(o), o)
    /\ pc = "assembled" =>
           /\ dailyLST = [i \in 1..(end - start) |-> dayImageOf(s2, i - 1)]
           /\ filtered = sort(SelectSeq([i \in 1..(end - start) |-> dayImageOf(s2, i - 1)],
                                        neqNoData))

(* an assembled run whose units were computed out of day order, one of them
   evaluated again, with images on at least two days *)
C6_Witness ==
    /\ pc = "assembled"
    /\ outOfOrder
    /\ \E o \in days : evals[o] > 1
    /\ Len(filtered) >= 2

(* C7: the band names of the training stack are the band names of the stack
   rebuilt for every unit with images. *)
C7_SameBandNames ==
    \A o \in DOMAIN outcome :
        UnitState(o) = "Valid" => DOMAIN all(start + o) = DOMAIN features

(* the band names differ exactly by the stratum band of the training stack *)
BandNamesAsCoded ==
    \A o \in DOMAIN outcome :
        UnitState(o) = "Valid" =>
            /\ DOMAIN features = DOMAIN all(start + o) \cup {"elevation_class"}
            /\ "elevation_class" \notin DOMAIN all(start + o)

(* the stack without the stratum band *)
WithoutStratum(stack) == [b \in DOMAIN stack \ {"elevation_class"} |-> stack[b]]

(* C8: applied to the same images (those acquired on one day over the region)
   the training derivation and the per-day derivation give the same stack. *)
C8_SameDerivation ==
    \A o \in DOMAIN outcome :
        LET S == {im \in OwnImages(o) : im.inBounds}
        IN  S # {} => WithoutStratum(featuresOf(S)) = allOf(S, start + o)

----------------------------------------------------------------------------
(* Properties of the feature selection *)

Range(list) == {list[i] : i \in 1..Len(list)}

(* the squared correlation of a candidate with the label *)
Score(f) == pearsonsCorrelationSquared(sample[f], sample[label])

(* the candidates whose values are the same at every sample point *)
ZeroVariance ==
    {f \in Range(predictors) : \A i, j \in Points(sample[f]) : sample[f][i] = sample[f][j]}

(* the final predictors are the finalPredictorsSize best of the candidates *)
IsTopK ==
    LET sel    == Range(modelFeatures)
        ranked == {f \in Range(predictors) : IsNumber(Score(f))}
    IN  /\ Len(modelFeatures) = Min(finalPredictorsSize, Len(predictors))
        /\ Cardinality(sel) = Len(modelFeatures)
        /\ sel \subseteq ranked
        /\ \A f \in sel : \A u \in ranked \ sel : ~Greater(Score(u), Score(f))
        /\ \A i, j \in 1..Len(modelFeatures) :
               i < j => ~Greater(Score(modelFeatures[j]), Score(modelFeatures[i]))
        /\ modelFeatures = SubSeq(topCorr, 1, Len(modelFeatures))
        /\ Len(topCorr) = Min(2 * finalPredictorsSize, Len(predictors))

(* C9: the final predictor set is exactly the K candidates with the largest
   R^2 against the label, a candidate with a higher R^2 ranked above one with
   a lower R^2 (so that K = 1 selects the single best candidate and K = 2 of
   three candidates the best two). *)
C9_TopKSelected ==
    pc \in {"selected", "trained"} => IsTopK

(* the selection is the top K whenever every candidate has a defined R^2 *)
TopKAsCoded ==
    pc \in {"selected", "trained"} /\ (\A f \in Range(predictors) : IsNumber(Score(f)))
        => IsTopK

(* C10: a candidate with zero variance over the sample is excluded from the
   ranking: no score that is not a number is kept for it, it is neither in
   the shortlist nor among the final predictors, and the run does not fail. *)
C10_DegenerateExcluded ==
    \A f \in ZeroVariance :
        /\ \A i \in 1..Len(correlation) :
               correlation[i].feature = f => IsNumber(correlation[i].r2)
        /\ f \notin Range(topCorr)
        /\ f \notin Range(modelFeatures)
        /\ run = "running"

----------------------------------------------------------------------------
(* Properties of the training partition *)

(* C11: the sample is partitioned into a Train and a Test subset by the draw
   against the ratio: once the model is fitted, every sample point belongs to
   exactly one of the subsets built from the draw, and the model is fitted on
   the Train subset only. *)
C11_TrainTestPartition ==
    pc = "trained" =>
        /\ \A i \in Points(sample[label]) :
               Cardinality({S \in SplitSubsets : i \in S}) = 1
        /\ model.fittedOn = train

(* what the script does build: the Train subset is part of the sample, and it
   is what the model is fitted on, with the selected features *)
TrainAsCoded ==
    pc = "trained" =>
        /\ train \subseteq Points(sample[label])
        /\ model.fittedOn = train
        /\ model.inputProperties = modelFeatures

----------------------------------------------------------------------------
(* Properties of the sampling *)

(* the number of rows of the sample that belong to a class *)
RowsOfClass(class) ==
    Cardinality({i \in Points(sample[label]) : sample["elevation_class"][i] = class})

(* C13: with an empty sample the training fails and no model is used for the
   prediction: the model does not exist, no entry of the series is a
   prediction, and the series is never assembled when a unit has images.  A
   stratum without pixels contributes no row and is no error: the sample has
   the rows of the other strata, the run goes on, and the model is fitted
   whenever it is given a row. *)
C13_EmptySampleFails ==
    /\ pc \in {"trained", "predict", "assembled"} /\ Points(sample[label]) = {} =>
           /\ ~IsTrained(model)
           /\ \A o \in DOMAIN outcome : IsNoData(outcome[o])
           /\ pc = "assembled" => \A o \in days : ~hasData(start + o)
           /\ run = "failed" => \E o \in days : hasData(start + o)
    /\ pc # "start" =>
           /\ \A class \in 0..7 :
                  RowsOfClass(class) =
                      Min(numPoints,
                          Cardinality({px \in roi : stratOf(px.elevation) = class}))
           /\ pc \in {"sampled", "correlated", "shortlisted", "selected", "trained"} =>
                  run = "running"
           /\ pc \in {"trained", "predict", "assembled"} /\ train # {} =>
                  IsTrained(model) /\ run = "running"

(* the region is empty, and the evaluation of a unit with images has failed
   on the missing model *)
C13_Witness ==
    /\ roi = {}
    /\ pc = "predict"
    /\ run = "failed"
    /\ ~IsTrained(model)

(* C14: whatever the selection among the candidates, the model is fitted on
   exactly the selected names, in their order, and every stack the prediction
   builds for a day with images has all of those bands: the classification
   never meets a stack that lacks a feature of the model. *)
C14_ModelFeaturesSupplied ==
    pc = "trained" =>
        /\ model.inputProperties = modelFeatures
        /\ \A o \in days :
               hasData(start + o) => ~classifyFailsOnBands(all(start + o), model)

(* a model fitted on three features, the elevation among them, and a day
   with an image to classify *)
C14_Witness ==
    /\ pc = "trained"
    /\ IsTrained(model)
    /\ Len(model.inputProperties) = ScriptPredictorsSize
    /\ "elevation" \in Range(model.inputProperties)
    /\ \E o \in days : hasData(start + o)

----------------------------------------------------------------------------
(* Properties of the assembled series and of what is made of it *)

(* C15: the series has two views.  The full series dailyLST holds the entry
   of every unit, placeholders included; the filtered series holds exactly
   the Valid entries, each once and as it is in the full series, by ascending
   time. *)
C15_TwoViews ==
    pc = "assembled" =>
        /\ Len(dailyLST) = Cardinality(days)
        /\ \A o \in days : dailyLST[o + 1] = outcome[o]
        /\ \A o \in days : dailyLST[o + 1].props.time_start = millis(start + o)
        /\ Range(filtered) = {e \in Range(dailyLST) : ~IsNoData(e)}
        /\ Len(filtered) = Cardinality({o \in days : UnitState(o) = "Valid"})
        /\ \A i, j \in 1..Len(filtered) :
               i < j => filtered[i].props.time_start < filtered[j].props.time_start

(* a series with a placeholder and a prediction *)
C15_Witness ==
    /\ pc = "assembled"
    /\ \E o \in days : UnitState(o) = "NoData"
    /\ \E o \in days : UnitState(o) = "Valid"
    /\ Len(filtered) = 1

(* C16: every consumer is handed Valid entries only: no placeholder is in the
   collection of the chart, of the animation or of the download link. *)
C16_SinksGetValidOnly ==
    pc = "assembled" =>
        \A handed \in {chart, thumbnail, videoThumbURL} :
            \A i \in 1..Len(handed) : ~IsNoData(handed[i])

(* the animation and its link are made of the filtered series; the chart is
   made of the full one *)
SinksAsCoded ==
    pc = "assembled" =>
        /\ \A handed \in {thumbnail, videoThumbURL} :
               \A i \in 1..Len(handed) : ~IsNoData(handed[i])
        /\ Len(chart) = Cardinality(days)

(* the elevations of the seven bins of the partition rule *)
InBin(class, elev) ==
    CASE class = 1 -> elev < 0
      [] class = 2 -> 0 <= elev /\ elev < 10
      [] class = 3 -> 10 <= elev /\ elev < 50
      [] class = 4 -> 50 <= elev /\ elev < 100
      [] class = 5 -> 100 <= elev /\ elev < 500
      [] class = 6 -> 500 <= elev /\ elev < 1000
      [] class = 7 -> 1000 <= elev

(* C17: every sampled pixel has exactly one class: exactly one of the seven
   bins holds its elevation and its class is that bin, never the initial 0;
   and of two pixels the higher one has the same or a higher class. *)
C17_OneClassPerPixel ==
    pc # "start" =>
        /\ \A i \in Points(sample[label]) :
               LET elev  == sample["elevation"][i]
                   class == sample["elevation_class"][i]
               IN  /\ Cardinality({c \in 1..7 : InBin(c, elev)}) = 1
                   /\ class \in 1..7
                   /\ InBin(class, elev)
        /\ \A i, j \in Points(sample[label]) :
               sample["elevation"][i] <= sample["elevation"][j]
                   => sample["elevation_class"][i] <= sample["elevation_class"][j]

(* a sample with a pixel on the lower edge of a bin and one of a higher bin *)
C17_Witness ==
    /\ pc = "sampled"
    /\ \E i, j \in Points(sample[label]) :
           /\ sample["elevation"][i] = 0 /\ sample["elevation_class"][i] = 2
           /\ sample["elevation"][j] = 1000 /\ sample["elevation_class"][j] = 7

(* C18: no step of the prediction changes shared state.  A step that computes
   a unit, or fails on it, is taken after the training, leaves the model, the
   terrain, the archive, the region and the training results as they are,
   keeps the entry of every other unit and adds at most one; and the model
   is written by the training alone, before any unit is computed. *)
C18_InferenceFrame ==
    [][/\ outcome' # outcome \/ run' # run =>
              /\ pc = "predict"
              /\ model' = model
              /\ srtm' = srtm /\ roi' = roi /\ s2' = s2
              /\ start' = start /\ end' = end
              /\ UNCHANGED trainingVars
              /\ \A o \in DOMAIN outcome :
                     o \in DOMAIN outcome' /\ outcome'[o] = outcome[o]
              /\ Cardinality(DOMAIN outcome') <= Cardinality(DOMAIN outcome) + 1
       /\ model' # model => pc = "selected" /\ DOMAIN outcome = {}]_vars

(* the second unit has been computed with the fitted model: a prediction
   next to the entry of the other unit *)
C18_Witness ==
    /\ pc = "predict"
    /\ IsTrained(model)
    /\ Cardinality(DOMAIN outcome) = 2
    /\ \E o \in DOMAIN outcome : UnitState(o) = "Valid"

(* C20: evaluating again a unit that is Valid, with the same archive and
   model, gives the entry it had (state, time and values) and leaves the
   entries of the other units, the archive and the model as they are. *)
C20_RerunIdempotent ==
    [][\A o \in DOMAIN outcome :
           UnitState(o) = "Valid" /\ evals'[o] > evals[o] =>
               /\ o \in DOMAIN outcome'
               /\ outcome'[o] = outcome[o]
               /\ outcome' = outcome
               /\ model' = model /\ s2' = s2 /\ srtm' = srtm]_vars

(* a Valid unit has been evaluated again after the other unit was computed *)
C20_Witness ==
    \E o \in DOMAIN outcome :
        /\ UnitState(o) = "Valid"
        /\ evals[o] >= 2
        /\ \E other \in DOMAIN outcome : other # o

----------------------------------------------------------------------------
(* THE MONTHLY TIME-SERIES SCRIPTS                                          *)
(* NDVI_Time_Series.js, SAVI_Time_Series_Animation.js,                      *)
(* Soil_Moisture_Time_Series_Animation.js, part_002 (false colour) and      *)
(* part_000 (precipitation) share one builder: per year a filtered source   *)
(* collection, per month a composite with its properties, the yearly        *)
(* collections merged in the order of the years.  A source image carries    *)
(* its 'system:time_start' in milliseconds, its CLOUDY_PIXEL_PERCENTAGE     *)
(* and, per pixel of the area of interest, QA60 and the digital numbers of  *)
(* B4 and B8.  Every source image intersects the area of interest.          *)

(* Bounds of the monthly model *)
MaxYears == 2
MaxScenes == 2

(* endYear of the scripts *)
ScriptEndYear == 2024

MonthlyScripts == {"NDVI", "SAVI", "SMI", "FalseColor", "Precip"}
Years == (ScriptEndYear - MaxYears + 1)..ScriptEndYear

(* ee.List.sequence(1, 12) *)
Months == 1..12

(* the proleptic Gregorian calendar of ee.Date *)
IsLeap(y) == (y % 4 = 0 /\ y % 100 # 0) \/ y % 400 = 0
DaysInMonth(y, m) ==
    IF m = 2 THEN (IF IsLeap(y) THEN 29 ELSE 28)
    ELSE IF m \in {4, 6, 9, 11} THEN 30 ELSE 31
LeapsBefore(y) == ((y - 1) \div 4) - ((y - 1) \div 100) + ((y - 1) \div 400)

RECURSIVE DaysBefore(_, _)
DaysBefore(y, m) == IF m = 1 THEN 0 ELSE DaysInMonth(y, m - 1) + DaysBefore(y, m - 1)

(* ee.Date.fromYMD(year, month, day) *)
fromYMD(y, m, d) == [y |-> y, m |-> m, d |-> d]

(* days from 1970-01-01 to the date *)
dayNumber(date) ==
    365 * (date.y - 1970) + LeapsBefore(date.y) - LeapsBefore(1970)
        + DaysBefore(date.y, date.m) + date.d - 1

(* date.millis(), in days: a timestamp of the model is a whole number of days
   from the epoch, MsPerDay milliseconds each *)
dateMillis(date) == dayNumber(date)

(* start.advance(1, 'month') for the first day of a month *)
advanceMonth(date) ==
    IF date.m = 12 THEN fromYMD(date.y + 1, 1, date.d)
    ELSE fromYMD(date.y, date.m + 1, date.d)

(* collection.filterDate(from, to): from inclusive, to exclusive *)
filterDate(coll, from, to) ==
    {im \in coll : dateMillis(from) <= im.time /\ im.time < dateMillis(to)}

(* ee.Filter.lt('CLOUDY_PIXEL_PERCENTAGE', limit); the precipitation script
   has no such filter *)
cloudFilter(sc, im) ==
    \/ sc = "Precip"
    \/ im.cloudPct < (IF sc = "SMI" THEN 20 ELSE 10)

(* the source collection of a year: filterBounds, filterDate(1 January,
   31 December), the cloud filter *)
yearCollection(sc, year) ==
    {im \in filterDate(archive, fromYMD(year, 1, 1), fromYMD(year, 12, 31)) :
        cloudFilter(sc, im)}

(* ee.Number(2).pow(10).int() and ee.Number(2).pow(11).int() *)
cloudBitMask == 2 ^ 10
cirrusBitMask == 2 ^ 11

(* the mask of maskS2clouds: 1 where the pixel is kept *)
maskS2(qa60) ==
    IF bitwiseAnd(qa60, cloudBitMask) = 0 /\ bitwiseAnd(qa60, cirrusBitMask) = 0
    THEN 1 ELSE 0

(* maskS2clouds(image) at one pixel: updateMask(mask).divide(10000) *)
maskS2clouds(px) ==
    IF maskS2(px.qa60) = 1
    THEN [B4 |-> [num |-> px.b4, den |-> ReflectanceScale],
          B8 |-> [num |-> px.b8, den |-> ReflectanceScale]]
    ELSE [B4 |-> Masked, B8 |-> Masked]

(* fractions in lowest terms with a positive denominator *)
RECURSIVE GCD(_, _)
GCD(a, b) == IF b = 0 THEN a ELSE GCD(b, a % b)
Abs(n) == IF n < 0 THEN -n ELSE n
Reduce(f) ==
    IF f.den = 0 THEN Masked
    ELSE LET g == GCD(Abs(f.num), Abs(f.den))
             sgn == IF f.den < 0 THEN -1 ELSE 1
         IN  [num |-> sgn * (f.num \div g), den |-> sgn * (f.den \div g)]
LessEq(a, b) == a.num * b.den <= b.num * a.den

(* Image.subtract and Image.divide at a pixel; divide returns 0 for a
   division by 0 *)
subtract(a, b) == Reduce([num |-> a.num * b.den - b.num * a.den, den |-> a.den * b.den])
divide(a, b) ==
    IF b.num = 0 THEN Whole(0)
    ELSE Reduce([num |-> a.num * b.den, den |-> a.den * b.num])

(* the pixels of the area of interest *)
AoiPixels(coll) == IF coll = {} THEN {} ELSE DOMAIN (CHOOSE im \in coll : TRUE).px

(* the values of one band at one pixel over the images that are not masked
   there, in ascending order *)
RECURSIVE SortedValues(_, _, _)
SortedValues(coll, p, band) ==
    LET open == {im \in coll : ~IsMasked(maskS2clouds(im.px[p])[band])}
    IN  IF open = {} THEN <<>>
        ELSE LET lo == CHOOSE im \in open :
                          \A other \in open :
                              maskS2clouds(im.px[p])[band].num <= maskS2clouds(other.px[p])[band].num
             IN  <<maskS2clouds(lo.px[p])[band].num>>
                     \o SortedValues(coll \ {lo}, p, band)

(* collection.median() at one pixel and band *)
medianAt(coll, p, band) ==
    LET vs == SortedValues(coll, p, band)
        n  == Len(vs)
    IN  IF n = 0 THEN Masked
        ELSE [num |-> vs[(n + 1) \div 2] + vs[(n + 2) \div 2],
              den |-> 2 * ReflectanceScale]

(* composite.normalizedDifference(['B8', 'B4']) per pixel *)
ndviImage(coll) ==
    [p \in AoiPixels(coll) |->
        Reduce(normalizedDifference([B4 |-> medianAt(coll, p, "B4"),
                                     B8 |-> medianAt(coll, p, "B8")], "B8", "B4"))]

(* reduceRegion(ee.Reducer.minMax()) over the unmasked pixels: the pair of
   the smallest and the largest value, <<>> (null) when every pixel is
   masked *)
ndviMinMax(img) ==
    LET open == {p \in DOMAIN img : ~IsMasked(img[p])}
    IN  IF open = {} THEN <<>>
        ELSE <<img[CHOOSE p \in open : \A q \in open : LessEq(img[p], img[q])],
               img[CHOOSE p \in open : \A q \in open : LessEq(img[q], img[p])]>>

(* the normalization has no number to subtract when min and max are null *)
normalizationFails(coll) == ndviMinMax(ndviImage(coll)) = <<>>

(* ndviImage.subtract(ndviMin).divide(ndviMax.subtract(ndviMin)) per pixel;
   a masked pixel stays masked; no image when the normalization fails *)
ndviNormalized(coll) ==
    LET img    == ndviImage(coll)
        minMax == ndviMinMax(img)
    IN  IF minMax = <<>> THEN <<>>
        ELSE [p \in DOMAIN img |->
                 IF IsMasked(img[p]) THEN Masked
                 ELSE divide(subtract(img[p], minMax[1]),
                             subtract(minMax[2], minMax[1]))]

(* a median that has the bands of the source even over no image *)
compositeBandsOfSource(sc, collection) ==
    IF sc \in {"NDVI", "SAVI"} THEN {"B4", "B8"}
    ELSE IF sc = "FalseColor" THEN {"B3", "B4", "B8"}
    ELSE S2Bands

(* the bands of collection.median(): none for an empty collection, else the
   bands maskS2clouds (and the select after it) keeps *)
compositeBands(sc, collection) ==
    IF collection = {} THEN {}
    ELSE IF sc \in {"NDVI", "SAVI"} THEN {"B4", "B8"}
    ELSE IF sc = "FalseColor" THEN {"B3", "B4", "B8"}
    ELSE S2Bands

(* The image of one month with its properties; only an image of a no-data
   branch carries the property noData.  'collection' keeps the source images
   the composite is computed from; 'image' holds the pixels where the
   script's arithmetic is modelled (NDVI), <<>> elsewhere; 'failed' marks an
   image whose computation raises an error. *)
monthly(sc, year, month) ==
    LET first      == fromYMD(year, month, 1)
        last       == advanceMonth(first)
        collection == filterDate(yearCollection(sc, year), first, last)
        count      == Cardinality(collection)
        entry(bands, cnt, flag, image, failed) ==
            [bands |-> bands, image |-> image, failed |-> failed,
             collection |-> collection,
             props |-> IF flag = 1
                       THEN [year |-> year, month |-> month, count |-> cnt,
                             time_start |-> dateMillis(first), noData |-> 1]
                       ELSE [year |-> year, month |-> month, count |-> cnt,
                             time_start |-> dateMillis(first)]]
    IN  CASE sc = "NDVI" ->
               IF count > 0
               THEN entry({"NDVI_Normalized"}, count, 0, ndviNormalized(collection),
                          normalizationFails(collection))
               ELSE entry({"NDVI_Normalized"}, 0, 1, <<>>, FALSE)
          [] sc = "SMI" ->
               IF count > 0
               THEN entry({"SMI"}, count, 0, <<>>, FALSE)
               ELSE entry({"SMI"}, 0, 1, <<>>, FALSE)
          [] sc = "FalseColor" ->
               IF count > 0
               THEN entry(compositeBands(sc, collection), count, 0, <<>>, FALSE)
               ELSE entry({"constant"}, 0, 1, <<>>, FALSE)
          [] sc = "SAVI" ->
               IF Cardinality(compositeBands(sc, collection)) > 0
               THEN entry({"NDVI"}, count, 0, <<>>, FALSE)
               ELSE entry({"NDVI"}, count, 1, <<>>, FALSE)
          [] sc = "Precip" ->
               (* the sum of no image has no band for rename('Precip') *)
               entry({"Precip"}, count, 0, <<>>, collection = {})

(* ee.ImageCollection.fromImages(monthly) of one year *)
yearly(sc, year) == [month \in Months |-> monthly(sc, year, month)]

(* the source images of the monthly scripts *)
ClearPixels == <<[qa60 |-> 0, b4 |-> 1000, b8 |-> 3000]>>
SceneTimes ==
    {dateMillis(fromYMD(ScriptEndYear - MaxYears, 12, 31))}
        \cup UNION {{dateMillis(fromYMD(y, 1, 1)), dateMillis(fromYMD(y, 3, 1)) - 1,
                     dateMillis(fromYMD(y, 12, 1)), dateMillis(fromYMD(y, 12, 31))} :
                        y \in Years}
MonthlyImages ==
    {[time |-> t, cloudPct |-> 0, px |-> ClearPixels] : t \in SceneTimes}
        \cup {[time |-> dateMillis(fromYMD(ScriptEndYear, 1, 1)), cloudPct |-> 15,
               px |-> ClearPixels]}

(* the subsets of at most n elements *)
RECURSIVE SubsetsUpTo(_, _)
SubsetsUpTo(S, n) ==
    IF n = 0 THEN {{}}
    ELSE LET smaller == SubsetsUpTo(S, n - 1)
         IN  smaller \cup {a \cup {x} : a \in smaller, x \in S}

(* the part of the state the monthly scripts do not use *)
LstIdle ==
    /\ predictors = <<>>
    /\ finalPredictorsSize = ScriptPredictorsSize
    /\ sample = <<>>
    /\ correlation = <<>>
    /\ topCorr = <<>>
    /\ modelFeatures = <<>>
    /\ train = {}
    /\ roi = {}
    /\ s2 = {}
    /\ srtm = 0
    /\ start = 0
    /\ end = 0
    /\ numPoints = ScriptNumPoints
    /\ model = smileRandomForest({}, <<>>)
    /\ outcome = <<>>
    /\ evals = <<>>
    /\ outOfOrder = FALSE
    /\ run = "running"
    /\ faults = {}
    /\ dailyLST = <<>>
    /\ filtered = <<>>

(* nothing has been printed, shown or exported *)
NoOutput ==
    /\ pending = {}
    /\ console = <<>>
    /\ layers = <<>>
    /\ tasks = <<>>
    /\ overtaken = 0
    /\ qa = <<>>
    /\ mask = <<>>

(* a monthly script with its year range and its source archive *)
InitMonthly ==
    /\ LstIdle
    /\ NoOutput
    /\ script \in MonthlyScripts
    /\ startYear \in Years
    /\ endYear \in Years
    /\ archive \in SubsetsUpTo(MonthlyImages, MaxScenes)
    /\ series = <<>>
    /\ pc = "build"

(* The builder, one year of years.map(...) per step: the year's collection
   is merged behind the collections of the earlier years
   (ee.ImageCollection(prev).merge(ic)).  ee.List.sequence(startYear,
   endYear) is empty for startYear > endYear. *)
monthlyRange ==
    /\ script \in MonthlyScripts
    /\ pc = "build"
    /\ LET year == startYear + (Len(series) \div 12)
       IN  IF year > endYear
           THEN /\ pc' = "built"
                /\ UNCHANGED series
           ELSE /\ series' = series \o yearly(script, year)
                /\ pc' = IF year = endYear THEN "built" ELSE "build"
    /\ UNCHANGED <<lstVars, script, startYear, endYear, archive, pending, console,
                   layers, tasks, overtaken, qa, mask>>

(* a printed line: its text and up to two numbers *)
Line(text, a, b) == [text |-> text, a |-> a, b |-> b]

(* an asynchronous request whose callback has not run; 'time' names the
   timestamp a per-month request is about, 0 elsewhere *)
Request(kind, time) == [kind |-> kind, time |-> time]

(* the scripts that export to Drive and those whose animation waits for the
   size of the filtered collection *)
ExportingScripts == {"NDVI", "SAVI", "SMI"}
GuardedGifScripts == {"NDVI", "SMI", "FalseColor"}

(* the sorted collection with the flagged images left in *)
filteredOfAll(sc, coll) == sort(coll)

(* var filtered = images.filter(ee.Filter.neq('noData', 1))
                        .sort('system:time_start'); the precipitation
   script sorts without the filter *)
filteredOf(sc, coll) ==
    IF sc = "Precip" THEN sort(coll) ELSE sort(SelectSeq(coll, neqNoData))

(* print(ui.Thumbnail(filtered...)); print('Download GIF:', ...URL): both
   over the frames of filtered *)
animation(frames) ==
    <<Line("Thumbnail", Len(frames), 0), Line("Download GIF", Len(frames), 0)>>

(* The execution block after the builder: the collection of timestamps, the
   size of the filtered collection and the collection to export are
   requested; an animation without the size request is printed at once. *)
Run ==
    /\ script \in MonthlyScripts
    /\ pc = "built"
    /\ pc' = "run"
    /\ pending' = {Request("timestamps", 0)}
                    \cup (IF script \in GuardedGifScripts THEN {Request("size", 0)} ELSE {})
                    \cup (IF script \in ExportingScripts THEN {Request("export", 0)} ELSE {})
    /\ console' = IF script \in GuardedGifScripts THEN console
                  ELSE console \o animation(filteredOf(script, series))
    /\ UNCHANGED <<lstVars, script, startYear, endYear, archive, series, layers,
                   tasks, overtaken, qa, mask>>

(* the characters of a non-negative number in a string concatenation *)
DigitChars == <<"0", "1", "2", "3", "4", "5", "6", "7", "8", "9">>
RECURSIVE Digits(_)
Digits(n) ==
    IF n < 10 THEN <<DigitChars[n + 1]>>
    ELSE Digits(n \div 10) \o <<DigitChars[(n % 10) + 1]>>

(* the name that leaves the month out *)
descriptionByYear(prefix, year, month) == <<prefix>> \o Digits(year)

(* description: 'NDVI_' + year + '_' + month, as its characters *)
description(prefix, year, month) ==
    <<prefix>> \o Digits(year) \o <<"_">> \o Digits(month)

exportPrefix(sc) == IF sc = "SMI" THEN "SMI_" ELSE "NDVI_"

(* if (noData !== 1) in the loop over the features *)
notNoData(f) == ~("noData" \in DOMAIN f.props /\ f.props.noData = 1)

(* images.features.forEach(...): what the loop starts and what it prints *)
RECURSIVE exportsOf(_, _)
exportsOf(sc, fs) ==
    IF fs = <<>> THEN <<>>
    ELSE LET f == Head(fs)
         IN  (IF notNoData(f)
              THEN <<description(exportPrefix(sc), f.props.year, f.props.month)>>
              ELSE <<>>) \o exportsOf(sc, Tail(fs))

exportLines(fs) ==
    [i \in 1..Len(fs) |->
        IF notNoData(fs[i])
        THEN Line("Exporting", fs[i].props.year, fs[i].props.month)
        ELSE Line("No data, skipping export", fs[i].props.year, fs[i].props.month)]

(* the callback of exportNDVIToDrive / exportSMIToDrive *)
exportToDrive ==
    /\ Request("export", 0) \in pending
    /\ pending' = pending \ {Request("export", 0)}
    /\ tasks' = tasks \o exportsOf(script, series)
    /\ console' = console \o exportLines(series)
    /\ UNCHANGED <<lstVars, script, startYear, endYear, archive, series, layers,
                   overtaken, qa, mask, pc>>

(* the callback of filtered.size().evaluate in createNDVIGif, createSMIGif
   and createFalseColorGif *)
createGif ==
    /\ Request("size", 0) \in pending
    /\ pending' = pending \ {Request("size", 0)}
    /\ LET frames == filteredOf(script, series)
           size   == Len(frames)
       IN  console' = console \o
               (IF size > 0 THEN animation(frames)
                ELSE <<Line("No data available for animation", 0, 0)>>)
    /\ UNCHANGED <<lstVars, script, startYear, endYear, archive, series, layers,
                   tasks, overtaken, qa, mask, pc>>

NextMonthly ==
    \/ monthlyRange
    \/ Run
    \/ exportToDrive
    \/ createGif
SpecMonthly == InitMonthly /\ [][NextMonthly]_vars

----------------------------------------------------------------------------
(* THE MAP LAYERS: the execution blocks of the NDVI, SAVI, soil-moisture and
   false-colour scripts request the list of timestamps and, per timestamp,
   the 'count' of its image (in the SAVI script 'noData' first, 'count' in
   its callback); the callback of 'count' prints the month's line and adds
   the layer.  The replies come in any order, at most MaxOvertakes of them
   before the reply of an older month. *)

MaxOvertakes == 1

LayerScripts == {"NDVI", "SAVI", "SMI", "FalseColor"}

(* the timestamps the execution block lists: of all images, in the
   false-colour script of the images behind ee.Filter.neq('noData', 1) *)
timestampsOf(sc, coll) ==
    LET listed == IF sc = "FalseColor" THEN SelectSeq(coll, neqNoData) ELSE coll
    IN  [i \in 1..Len(listed) |-> listed[i].props.time_start]

(* images.filter(ee.Filter.eq('system:time_start', time)).first() *)
imageAt(coll, time) ==
    coll[CHOOSE i \in DOMAIN coll :
            /\ coll[i].props.time_start = time
            /\ \A j \in DOMAIN coll : coll[j].props.time_start = time => i <= j]

(* ee.Date(time).format('YYYY-MM'): the year and the month of the timestamp
   as the number YYYYMM *)
formatYYYYMM(time) ==
    LET ym == CHOOSE d \in (Years \cup {ScriptEndYear - MaxYears}) \X Months :
                  /\ dateMillis(fromYMD(d[1], d[2], 1)) <= time
                  /\ time < dateMillis(advanceMonth(fromYMD(d[1], d[2], 1)))
    IN  100 * ym[1] + ym[2]

(* the months that wait for a reply; a reply overtakes when an older month
   still waits *)
Waiting == {r.time : r \in {q \in pending : q.kind \in {"noData", "count"}}}
Overtakes(time) == \E u \in Waiting : u < time

(* a callback that adds the layer whatever the flag *)
addsLayerAlways(sc, img) == TRUE

(* whether the callback of 'count' adds the layer: the SAVI script tests
   noData !== 1, the others add it for every listed timestamp *)
addsLayer(sc, img) == sc # "SAVI" \/ ~IsNoData(img)

(* a map that keeps its layers sorted by time *)
RECURSIVE addLayerByTime(_, _)
addLayerByTime(ls, layer) ==
    IF ls = <<>> THEN <<layer>>
    ELSE IF Head(ls).time <= layer.time
         THEN <<Head(ls)>> \o addLayerByTime(Tail(ls), layer)
         ELSE <<layer>> \o ls

(* Map.addLayer(img, vis, name): the layer goes on top of the layers added
   before *)
addLayer(ls, layer) == Append(ls, layer)

(* the callback of aggregate_array('system:time_start').evaluate: one
   request per listed timestamp *)
listTimestamps ==
    /\ script \in LayerScripts
    /\ Request("timestamps", 0) \in pending
    /\ LET timestamps == timestampsOf(script, series)
           first      == IF script = "SAVI" THEN "noData" ELSE "count"
       IN  pending' = (pending \ {Request("timestamps", 0)})
                          \cup {Request(first, timestamps[i]) : i \in DOMAIN timestamps}
    /\ UNCHANGED <<lstVars, script, startYear, endYear, archive, series, console,
                   layers, tasks, overtaken, qa, mask, pc>>

(* the callback of img.get('noData').evaluate in the SAVI script: it requests
   'count' *)
noDataCallback(time) ==
    /\ Request("noData", time) \in pending
    /\ Overtakes(time) => overtaken < MaxOvertakes
    /\ overtaken' = IF Overtakes(time) THEN overtaken + 1 ELSE overtaken
    /\ pending' = (pending \ {Request("noData", time)}) \cup {Request("count", time)}
    /\ UNCHANGED <<lstVars, script, startYear, endYear, archive, series, console,
                   layers, tasks, qa, mask, pc>>

(* the callback of img.get('count').evaluate: print('Month:', date,
   '| Images used:', count), then Map.addLayer.  A layer records how many
   lines had been printed when it was added. *)
countCallback(time) ==
    /\ Request("count", time) \in pending
    /\ Overtakes(time) => overtaken < MaxOvertakes
    /\ overtaken' = IF Overtakes(time) THEN overtaken + 1 ELSE overtaken
    /\ pending' = pending \ {Request("count", time)}
    /\ LET img  == imageAt(series, time)
           date == formatYYYYMM(time)
       IN  /\ console' = Append(console, Line("Images used", date, img.props.count))
           /\ layers' = IF addsLayer(script, img)
                        THEN addLayer(layers, [time |-> time, name |-> date,
                                               after |-> Len(console) + 1])
                        ELSE layers
    /\ UNCHANGED <<lstVars, script, startYear, endYear, archive, series, tasks, qa,
                   mask, pc>>

(* the source images of the runs with map layers: the first two months *)
LayerImages ==
    {[time |-> t, cloudPct |-> 0, px |-> ClearPixels] :
        t \in {dateMillis(fromYMD(ScriptEndYear, 1, 1)),
               dateMillis(fromYMD(ScriptEndYear, 3, 1)) - 1}}

InitLayers ==
    /\ LstIdle
    /\ NoOutput
    /\ script \in LayerScripts
    /\ startYear = ScriptEndYear
    /\ endYear = ScriptEndYear
    /\ archive \in SubsetsUpTo(LayerImages, MaxScenes)
    /\ series = <<>>
    /\ pc = "build"

NextLayers ==
    \/ monthlyRange
    \/ Run
    \/ listTimestamps
    \/ \E r \in pending : noDataCallback(r.time)
    \/ \E r \in pending : countCallback(r.time)

SpecLayers == InitLayers /\ [][NextLayers]_vars

----------------------------------------------------------------------------
(* THE CLOUD MASKS as functions of the quality band of one pixel *)

(* the QA_PIXEL values run over the lowest MaxQaBits bits *)
MaxQaBits == 6

(* the mask with the bits counted from the fill bit: bits 0 to 3 *)
cloudMaskLandsatFromFill(qaPixel) ==
    IF \A b \in {0, 1, 2, 3} : bitwiseAnd(qaPixel, 2 ^ b) = 0 THEN 1 ELSE 0

(* the mask of cloudMaskLandsat: one band per bit b of [1, 2, 3, 4] holding
   qa.bitwiseAnd(1 << b).eq(0), reduced with ee.Reducer.allNonZero() *)
cloudMaskLandsat(qaPixel) ==
    LET bands == [b \in {1, 2, 3, 4} |-> IF bitwiseAnd(qaPixel, 2 ^ b) = 0 THEN 1 ELSE 0]
    IN  IF \A b \in DOMAIN bands : bands[b] # 0 THEN 1 ELSE 0

(* the quality values of a pixel: QA_PIXEL over its lowest bits, QA60 over
   bits 0 and 9 to 11 *)
QaValues ==
    {[QA_PIXEL |-> n, QA60 |-> (2 ^ 9) * k + j] :
        n \in 0..((2 ^ MaxQaBits) - 1), k \in 0..7, j \in {0, 1}}

InitMasks ==
    /\ LstIdle
    /\ script = "Masks"
    /\ startYear = 0
    /\ endYear = 0
    /\ archive = {}
    /\ series = <<>>
    /\ pending = {}
    /\ console = <<>>
    /\ layers = <<>>
    /\ tasks = <<>>
    /\ overtaken = 0
    /\ qa \in QaValues
    /\ mask = <<>>
    /\ pc = "mask"

(* the three mask functions applied to the pixel: 1 where it is kept *)
Mask ==
    /\ script = "Masks"
    /\ pc = "mask"
    /\ mask' = [cloudMaskLandsat |-> cloudMaskLandsat(qa.QA_PIXEL),
                cloudMaskS2 |-> IF IsMasked(cloudMaskS2([qa60 |-> qa.QA60, dn |-> 1000]))
                                THEN 0 ELSE 1,
                maskS2clouds |-> maskS2(qa.QA60)]
    /\ pc' = "masked"
    /\ UNCHANGED <<lstVars, script, startYear, endYear, archive, series, pending,
                   console, layers, tasks, overtaken, qa>>

NextMasks == Mask
SpecMasks == InitMasks /\ [][NextMasks]_vars

----------------------------------------------------------------------------
(* THE NDVI NORMALIZATION over the pixels of the area of interest: the runs
   of the NDVI builder on January images whose pixels differ *)

(* the pixels of the area of interest at the scale of the reduction *)
AoiGrid == 1..2

(* a pixel under cloud, and clear pixels with B4 and B8 low or high *)
PixelValues ==
    {[qa60 |-> 1024, b4 |-> 1000, b8 |-> 1000]}
        \cup {[qa60 |-> 0, b4 |-> r, b8 |-> n] : r \in {1000, 3000}, n \in {1000, 3000}}

JanuaryImages ==
    {[time |-> dateMillis(fromYMD(ScriptEndYear, 1, 1)), cloudPct |-> 0, px |-> px] :
        px \in [AoiGrid -> PixelValues]}

InitNormalize ==
    /\ LstIdle
    /\ NoOutput
    /\ script = "NDVI"
    /\ startYear = ScriptEndYear
    /\ endYear = ScriptEndYear
    /\ archive \in SubsetsUpTo(JanuaryImages, MaxScenes) \ {{}}
    /\ series = <<>>
    /\ pc = "build"

NextNormalize == monthlyRange
SpecNormalize == InitNormalize /\ [][NextNormalize]_vars

----------------------------------------------------------------------------
(* PROPERTIES OF THE MONTHLY SERIES *)

(* the series is complete *)
Built == script \in MonthlyScripts /\ pc # "build"

(* the images the script composites from: the archive behind the cloud
   filter *)
SourceImages == {im \in archive : cloudFilter(script, im)}

(* the date of the image lies in [first day of the month, first day of the
   next month) *)
InMonth(im, y, m) ==
    /\ dateMillis(fromYMD(y, m, 1)) <= im.time
    /\ im.time < dateMillis(advanceMonth(fromYMD(y, m, 1)))

(* the date of the image lies in a year of the requested range *)
InRange(im) ==
    /\ dateMillis(fromYMD(startYear, 1, 1)) <= im.time
    /\ im.time < dateMillis(fromYMD(endYear + 1, 1, 1))

(* C21: in the complete series, the composite and the count of every entry
   are taken over all source images dated in [first day of its month, first
   day of the next month), December included, and every source image dated
   in a requested year (31 December too) is in exactly one entry. *)
C21_MonthlyWindows ==
    Built =>
        /\ \A i \in DOMAIN series :
              /\ series[i].collection =
                     {im \in SourceImages :
                         InMonth(im, series[i].props.year, series[i].props.month)}
              /\ series[i].props.count = Cardinality(series[i].collection)
        /\ \A im \in SourceImages :
              InRange(im) =>
                  Cardinality({i \in DOMAIN series : im \in series[i].collection}) = 1

(* the export callback has run *)
ExportDone ==
    /\ script \in ExportingScripts
    /\ pc = "run"
    /\ Request("export", 0) \notin pending

(* how often a line has been printed *)
Printed(line) == Cardinality({k \in DOMAIN console : console[k] = line})

(* how many tasks carry the name *)
Started(name) == Cardinality({k \in DOMAIN tasks : tasks[k] = name})

(* C22: once the export callback has run, every entry not flagged noData = 1
   has exactly one export task (named prefix_year_month) and its 'Exporting'
   line and no 'skipping' line, every flagged entry has its 'skipping' line
   and no task, there are no other tasks, and the names of the tasks are
   pairwise distinct. *)
C22_ExportsValidOnly ==
    ExportDone =>
        /\ \A i \in DOMAIN series :
              LET f    == series[i]
                  name == description(exportPrefix(script), f.props.year, f.props.month)
                  on   == Printed(Line("Exporting", f.props.year, f.props.month))
                  off  == Printed(Line("No data, skipping export", f.props.year,
                                       f.props.month))
              IN  IF IsNoData(f)
                  THEN Started(name) = 0 /\ on = 0 /\ off = 1
                  ELSE Started(name) = 1 /\ on = 1 /\ off = 0
        /\ Len(tasks) = Cardinality({i \in DOMAIN series : ~IsNoData(series[i])})
        /\ \A j, k \in DOMAIN tasks : j # k => tasks[j] # tasks[k]

(* exports were started for two months and a month was skipped *)
C22_Witness ==
    /\ ExportDone
    /\ Len(tasks) >= 2
    /\ \E i \in DOMAIN series : IsNoData(series[i])

(* C23: the sample drawn by the stratified sampler holds at most the
   configured number of points (numPoints) in total over all strata. *)
C23_TotalSampleCount ==
    (script = "LST" /\ pc \in {"sampled", "trained", "predict"} /\ DOMAIN sample # {})
        => Len(sample.LST) <= numPoints

(* the series has 12 entries per requested year, one per (year, month), and
   their 'system:time_start' values ascend strictly in the merged order *)
OnePerMonth ==
    /\ Len(series) = 12 * (endYear - startYear + 1)
    /\ \A y \in startYear..endYear : \A m \in Months :
          Cardinality({i \in DOMAIN series :
                          series[i].props.year = y /\ series[i].props.month = m}) = 1
    /\ \A i, j \in DOMAIN series :
          i < j => series[i].props.time_start < series[j].props.time_start

(* C24: for startYear <= endYear the builder returns 12 entries per year,
   one per (year, month), each of them an image, with strictly ascending
   'system:time_start' in the merged order, whether or not a month has
   source images. *)
C24_TwelvePerYear ==
    (Built /\ startYear <= endYear) =>
        /\ OnePerMonth
        /\ \A i \in DOMAIN series : ~series[i].failed

(* the scripts whose builder has a no-data branch *)
FlaggingScripts == {"NDVI", "SAVI", "SMI", "FalseColor"}

(* C25: in the series of a script with a no-data branch an entry carries
   noData = 1 exactly when its 'count' is 0, 'count' being the number of
   source images of its month; in the SAVI script, where the flag is decided
   from the bands of the composite, too. *)
C25_FlagIffNoImages ==
    (Built /\ script \in FlaggingScripts) =>
        \A i \in DOMAIN series :
            /\ series[i].props.count = Cardinality(series[i].collection)
            /\ IsNoData(series[i]) <=> series[i].props.count = 0

(* a SAVI series with a flagged month and a month with images *)
C25_Witness ==
    /\ Built
    /\ script = "SAVI"
    /\ \E i, j \in DOMAIN series :
          /\ IsNoData(series[i]) /\ series[i].props.count = 0
          /\ ~IsNoData(series[j]) /\ series[j].props.count > 0

(* the size callback of a guarded animation function has run *)
GifDone ==
    /\ script \in GuardedGifScripts
    /\ pc = "run"
    /\ Request("size", 0) \notin pending

(* how often a line with the text has been printed *)
PrintedText(text) == Cardinality({k \in DOMAIN console : console[k].text = text})

(* the entries of the series that are not flagged noData = 1 *)
ValidEntries == {i \in DOMAIN series : ~IsNoData(series[i])}

(* C26: once the size callback of a guarded animation function has run: with
   no Valid entry in the series only the 'no data available' message is
   printed, no thumbnail and no download URL; with a Valid entry the
   thumbnail and the URL are printed, over the Valid entries, and the
   message is not. *)
C26_GuardedAnimation ==
    GifDone =>
        IF ValidEntries = {}
        THEN /\ PrintedText("No data available for animation") = 1
             /\ PrintedText("Thumbnail") = 0
             /\ PrintedText("Download GIF") = 0
        ELSE /\ PrintedText("No data available for animation") = 0
             /\ Printed(Line("Thumbnail", Cardinality(ValidEntries), 0)) = 1
             /\ Printed(Line("Download GIF", Cardinality(ValidEntries), 0)) = 1
             /\ PrintedText("Thumbnail") = 1
             /\ PrintedText("Download GIF") = 1

(* the callback has run on a series of flagged months only *)
C26_Witness ==
    /\ GifDone
    /\ Len(series) >= 12
    /\ ValidEntries = {}
    /\ PrintedText("No data available for animation") = 1

----------------------------------------------------------------------------
(* PROPERTIES OF THE MAP LAYERS *)

(* the timestamps have been listed; every per-month callback has run *)
Listed ==
    /\ script \in LayerScripts
    /\ pc = "run"
    /\ Request("timestamps", 0) \notin pending
LayersDone == Listed /\ Waiting = {}

(* the stats line of an entry: its month as YYYYMM and its count *)
StatsLine(e) == Line("Images used", 100 * e.props.year + e.props.month, e.props.count)

(* the layers of a timestamp *)
LayersAt(time) == {k \in DOMAIN layers : layers[k].time = time}

(* C27: for every order of completion, every listed timestamp gets at most
   one 'Images used' line and one layer, exactly one line once every
   callback has run; a layer is on the map only after the line of its month
   was printed; and in the false-colour and SAVI scripts no layer belongs to
   an entry flagged noData. *)
C27_StatsBeforeLayer ==
    Listed =>
        /\ \A i \in DOMAIN series :
              LET e      == series[i]
                  listed == script # "FalseColor" \/ ~IsNoData(e)
              IN  /\ Printed(StatsLine(e)) <= 1
                  /\ Cardinality(LayersAt(e.props.time_start)) <= 1
                  /\ ~listed => Printed(StatsLine(e)) = 0
                  /\ (listed /\ LayersDone) => Printed(StatsLine(e)) = 1
                  /\ (script \in {"FalseColor", "SAVI"} /\ IsNoData(e))
                        => LayersAt(e.props.time_start) = {}
                  /\ \A k \in LayersAt(e.props.time_start) :
                        \E n \in 1..layers[k].after : console[n] = StatsLine(e)
        /\ \A k \in DOMAIN layers :
              \E i \in DOMAIN series : series[i].props.time_start = layers[k].time
        /\ LayersDone => PrintedText("Images used") = Len(timestampsOf(script, series))

(* every callback of a SAVI run has completed, one of them before the one
   of an older month; a month has its layer and a flagged month has none *)
C27_Witness ==
    /\ LayersDone
    /\ script = "SAVI"
    /\ overtaken > 0
    /\ layers # <<>>
    /\ \E i \in DOMAIN series :
          IsNoData(series[i]) /\ Printed(StatsLine(series[i])) = 1

(* C28 as claimed: the layers lie on the map in ascending order of their
   timestamps, whatever order the callbacks complete in. *)
C28_LayersAscending ==
    \A j, k \in DOMAIN layers : j < k => layers[j].time < layers[k].time

(* C28: the layers lie on the map in the order in which their count
   callbacks completed; they ascend by timestamp when no reply came before
   the reply of an older month. *)
C28_LayersInCompletionOrder ==
    /\ \A j, k \in DOMAIN layers : j < k => layers[j].after < layers[k].after
    /\ overtaken = 0 => C28_LayersAscending

(* two layers lie on the map against the order of their timestamps *)
C28_Witness ==
    /\ script \in {"NDVI", "SMI", "FalseColor"}
    /\ \E j, k \in DOMAIN layers : j < k /\ layers[j].time > layers[k].time

----------------------------------------------------------------------------
(* PROPERTIES OF THE NDVI NORMALIZATION *)

(* the NDVI of the month's composite, per pixel *)
MonthNdvi(e) == ndviImage(e.collection)

(* the pixels of the month that have an NDVI *)
OpenPixels(e) == {p \in DOMAIN MonthNdvi(e) : ~IsMasked(MonthNdvi(e)[p])}

(* the normalized value of every pixel with an NDVI is a number in [0, 1] *)
InUnitRange(e) ==
    /\ ~e.failed
    /\ \A p \in OpenPixels(e) :
          /\ p \in DOMAIN e.image
          /\ ~IsMasked(e.image[p])
          /\ LessEq(Whole(0), e.image[p])
          /\ LessEq(e.image[p], Whole(1))

(* a pixel with the smallest NDVI of the month maps to 0, one with the
   largest to 1 *)
ExtremesMapped(e) ==
    \A p \in OpenPixels(e) :
        /\ (\A q \in OpenPixels(e) : LessEq(MonthNdvi(e)[p], MonthNdvi(e)[q]))
              => (p \in DOMAIN e.image /\ e.image[p] = Whole(0))
        /\ (\A q \in OpenPixels(e) : LessEq(MonthNdvi(e)[q], MonthNdvi(e)[p]))
              => (p \in DOMAIN e.image /\ e.image[p] = Whole(1))

(* C29: for every month of the NDVI series with count > 0 the normalized
   value (ndvi - min) / (max - min) is computed, lies in [0, 1] at every
   pixel, is 0 at the minimum and 1 at the maximum, also when all pixels of
   the month have the same NDVI. *)
C29_SafeNormalization ==
    (Built /\ script = "NDVI") =>
        \A i \in DOMAIN series :
            series[i].props.count > 0 => InUnitRange(series[i]) /\ ExtremesMapped(series[i])

----------------------------------------------------------------------------
(* PROPERTIES OF THE CLOUD MASKS *)

(* C30: cloudMaskLandsat keeps the pixel exactly when bits 1, 2, 3 and 4 of
   QA_PIXEL are all zero, that is when QA_PIXEL AND 30 = 0; cloudMaskS2 and
   maskS2clouds keep it exactly when bits 10 and 11 of QA60 are both zero. *)
C30_MaskBits ==
    (script = "Masks" /\ pc = "masked") =>
        /\ mask.cloudMaskLandsat = 1 <=> \A b \in 1..4 : Bit(qa.QA_PIXEL, b) = 0
        /\ mask.cloudMaskLandsat = 1 <=> (qa.QA_PIXEL % 32) \div 2 = 0
        /\ mask.cloudMaskS2 = 1 <=> (Bit(qa.QA60, 10) = 0 /\ Bit(qa.QA60, 11) = 0)
        /\ mask.maskS2clouds = 1 <=> (Bit(qa.QA60, 10) = 0 /\ Bit(qa.QA60, 11) = 0)

(* a pixel kept by all masks although its fill bit, bit 5 of QA_PIXEL and
   bit 9 of QA60 are set *)
C30_Witness ==
    /\ script = "Masks"
    /\ pc = "masked"
    /\ Bit(qa.QA_PIXEL, 0) = 1
    /\ Bit(qa.QA_PIXEL, 5) = 1
    /\ Bit(qa.QA60, 9) = 1
    /\ mask.cloudMaskLandsat = 1
    /\ mask.cloudMaskS2 = 1
    /\ mask.maskS2clouds = 1

====
